---- MODULE Spec2Model ----
(***************************************************************************)
(* The pyzippy codec: the symbol table, the regex tokenizer, the ident     *)
(* framer, the compression gate of _encode and the walk of _decode.        *)
(* A Python str is a sequence of one-character strings; indices and        *)
(* pointers keep Python's 0-based values.                                  *)
(***************************************************************************)
EXTENDS Integers, Sequences, FiniteSets, TLC

\* ------------------------------------------------------------------ bounds
\* longest unknown run offered to _encode
MaxRun == 64
\* longest explicit artifact offered to _decode
MaxArtifactLen == 5
\* a threshold_length small enough for the gate to open in the model
MidThreshold == 60

\* ------------------------------------------------------- program constants
\* default of the threshold_length parameter
DefaultThreshold == 1900
\* step of the range() in _form_ident and the factor of its slice
ChunkStep == 63
\* the frame marker of an Ident
Marker == "5"

\* table with the code of the grave accent changed to the frame marker
table_marker_code ==
  <<
     <<<<"F", "a", "l", "s", "e">>, "A">>,
     <<<<"a", "w", "a", "i", "t">>, "a">>,
     <<<<"e", "l", "s", "e">>, "B">>,
     <<<<"i", "m", "p", "o", "r", "t">>, "b">>,
     <<<<"p", "a", "s", "s">>, "C">>,
     <<<<"N", "o", "n", "e">>, "c">>,
     <<<<"b", "r", "e", "a", "k">>, "D">>,
     <<<<"e", "x", "c", "e", "p", "t">>, "d">>,
     <<<<"i", "n">>, "E">>,
     <<<<"r", "a", "i", "s", "e">>, "e">>,
     <<<<"T", "r", "u", "e">>, "F">>,
     <<<<"c", "l", "a", "s", "s">>, "f">>,
     <<<<"f", "i", "n", "a", "l", "l", "y">>, "G">>,
     <<<<"i", "s">>, "g">>,
     <<<<"r", "e", "t", "u", "r", "n">>, "H">>,
     <<<<"a", "n", "d">>, "h">>,
     <<<<"c", "o", "n", "t", "i", "n", "u", "e">>, "I">>,
     <<<<"f", "o", "r">>, "i">>,
     <<<<"l", "a", "m", "b", "d", "a">>, "J">>,
     <<<<"t", "r", "y">>, "j">>,
     <<<<"a", "s">>, "K">>,
     <<<<"d", "e", "f">>, "k">>,
     <<<<"f", "r", "o", "m">>, "L">>,
     <<<<"n", "o", "n", "l", "o", "c", "a", "l">>, "l">>,
     <<<<"w", "h", "i", "l", "e">>, "M">>,
     <<<<"a", "s", "s", "e", "r", "t">>, "m">>,
     <<<<"d", "e", "l">>, "N">>,
     <<<<"g", "l", "o", "b", "a", "l">>, "n">>,
     <<<<"n", "o", "t">>, "O">>,
     <<<<"w", "i", "t", "h">>, "o">>,
     <<<<"a", "s", "y", "n", "c">>, "P">>,
     <<<<"e", "l", "i", "f">>, "p">>,
     <<<<"i", "f">>, "Q">>,
     <<<<"o", "r">>, "q">>,
     <<<<"y", "i", "e", "l", "d">>, "R">>,
     <<<<"!">>, "r">>,
     <<<<"@">>, "S">>,
     <<<<"#">>, "s">>,
     <<<<"%">>, "t">>,
     <<<<"^">>, "U">>,
     <<<<"&">>, "u">>,
     <<<<"*">>, "V">>,
     <<<<"(">>, "v">>,
     <<<<")">>, "W">>,
     <<<<"[">>, "w">>,
     <<<<"]">>, "X">>,
     <<<<"{">>, "x">>,
     <<<<"}">>, "Y">>,
     <<<<";">>, "y">>,
     <<<<":">>, "Z">>,
     <<<<"'">>, "z">>,
     <<<<"\"">>, "1">>,
     <<<<",">>, "2">>,
     <<<<"/">>, "3">>,
     <<<<"GRAVE">>, "5">>,
     <<<<"\\">>, "6">>,
     <<<<"|">>, "7">>,
     <<<<"=">>, "8">>,
     <<<<"\n">>, "0">>,
     <<<<"\t">>, "T">>,
     <<<<" ">>, "9">>
  >>

\* the literal -> code dictionary, in declaration (= iteration) order; the
\* one-character literal U+0060 (grave accent) is written "GRAVE"
table ==
  <<
     <<<<"F", "a", "l", "s", "e">>, "A">>,
     <<<<"a", "w", "a", "i", "t">>, "a">>,
     <<<<"e", "l", "s", "e">>, "B">>,
     <<<<"i", "m", "p", "o", "r", "t">>, "b">>,
     <<<<"p", "a", "s", "s">>, "C">>,
     <<<<"N", "o", "n", "e">>, "c">>,
     <<<<"b", "r", "e", "a", "k">>, "D">>,
     <<<<"e", "x", "c", "e", "p", "t">>, "d">>,
     <<<<"i", "n">>, "E">>,
     <<<<"r", "a", "i", "s", "e">>, "e">>,
     <<<<"T", "r", "u", "e">>, "F">>,
     <<<<"c", "l", "a", "s", "s">>, "f">>,
     <<<<"f", "i", "n", "a", "l", "l", "y">>, "G">>,
     <<<<"i", "s">>, "g">>,
     <<<<"r", "e", "t", "u", "r", "n">>, "H">>,
     <<<<"a", "n", "d">>, "h">>,
     <<<<"c", "o", "n", "t", "i", "n", "u", "e">>, "I">>,
     <<<<"f", "o", "r">>, "i">>,
     <<<<"l", "a", "m", "b", "d", "a">>, "J">>,
     <<<<"t", "r", "y">>, "j">>,
     <<<<"a", "s">>, "K">>,
     <<<<"d", "e", "f">>, "k">>,
     <<<<"f", "r", "o", "m">>, "L">>,
     <<<<"n", "o", "n", "l", "o", "c", "a", "l">>, "l">>,
     <<<<"w", "h", "i", "l", "e">>, "M">>,
     <<<<"a", "s", "s", "e", "r", "t">>, "m">>,
     <<<<"d", "e", "l">>, "N">>,
     <<<<"g", "l", "o", "b", "a", "l">>, "n">>,
     <<<<"n", "o", "t">>, "O">>,
     <<<<"w", "i", "t", "h">>, "o">>,
     <<<<"a", "s", "y", "n", "c">>, "P">>,
     <<<<"e", "l", "i", "f">>, "p">>,
     <<<<"i", "f">>, "Q">>,
     <<<<"o", "r">>, "q">>,
     <<<<"y", "i", "e", "l", "d">>, "R">>,
     <<<<"!">>, "r">>,
     <<<<"@">>, "S">>,
     <<<<"#">>, "s">>,
     <<<<"%">>, "t">>,
     <<<<"^">>, "U">>,
     <<<<"&">>, "u">>,
     <<<<"*">>, "V">>,
     <<<<"(">>, "v">>,
     <<<<")">>, "W">>,
     <<<<"[">>, "w">>,
     <<<<"]">>, "X">>,
     <<<<"{">>, "x">>,
     <<<<"}">>, "Y">>,
     <<<<";">>, "y">>,
     <<<<":">>, "Z">>,
     <<<<"'">>, "z">>,
     <<<<"\"">>, "1">>,
     <<<<",">>, "2">>,
     <<<<"/">>, "3">>,
     <<<<"GRAVE">>, "4">>,
     <<<<"\\">>, "6">>,
     <<<<"|">>, "7">>,
     <<<<"=">>, "8">>,
     <<<<"\n">>, "0">>,
     <<<<"\t">>, "T">>,
     <<<<" ">>, "9">>
  >>

\* the length digits
base_62 ==
  <<"0", "1", "2", "3", "4", "5", "6", "7", "8", "9", "a", "b", "c", "d", "e", "f", "g", "h", "i", "j", "k", "l", "m", "n", "o", "p", "q", "r", "s", "t", "u",
    "v", "w", "x", "y", "z", "A", "B", "C", "D", "E", "F", "G", "H", "I", "J", "K", "L", "M", "N", "O", "P", "Q", "R", "S", "T", "U", "V", "W", "X", "Y", "Z">>

\* ------------------------------------------------------- Python primitives
Min(S) == CHOOSE m \in S : \A k \in S : m <= k

MinOf(a, b) == IF a < b THEN a ELSE b

\* s[a:b] for 0 <= a <= b: Python clamps both ends to len(s)
Slice(s, a, b) == SubSeq(s, MinOf(a, Len(s)) + 1, MinOf(b, Len(s)))

\* s[i] does not raise IndexError: Python accepts -len(s) <= i < len(s)
InRange(s, i) == -Len(s) <= i /\ i < Len(s)

\* s[i] for an index in range; a negative index counts from the end
PyAt(s, i) == IF i >= 0 THEN s[i + 1] ELSE s[Len(s) + i + 1]

\* s.index(c) for a character that occurs in s
IndexOf(s, c) == Min({i \in 1..Len(s) : s[i] = c}) - 1

Chars(s) == {s[i] : i \in 1..Len(s)}

\* a value returned, or the exception that left the call
Ok(v) == [status |-> "ok", val |-> v]
Raise(e, v) == [status |-> e, val |-> v]

\* ---------------------------------------------------------------- strings
\* A str of the wire format: explicit characters, followed (only in the
\* output of base64.encodebytes) by a base64 text known by its length n and
\* by the bytes it encodes; the bytes of zlib.compress are known by their
\* length and by the data they decompress to.
NoBytes == [n |-> 0, data |-> <<>>]
NoBlob == [n |-> 0, bytes |-> NoBytes]
Str(cs) == [chars |-> cs, blob |-> NoBlob]
StrLen(s) == Len(s.chars) + s.blob.n

\* lengths zlib.compress can return for n input bytes: 2 header bytes, 4
\* checksum bytes and a deflate stream of at least 2 bytes (3 when n > 0),
\* at most one stored block of n + 5 bytes
ZlibLens(n) == IF n = 0 THEN {8} ELSE 9..(n + 11)

zlib_compress(data, zlen) == [n |-> zlen, data |-> data]

\* base64.encodebytes: lines of 57 bytes, each 4 characters per 3 bytes
\* (padded) and a newline
B64Len(n) == 4 * ((n + 2) \div 3) + ((n + 56) \div 57)

encodebytes(b) == [chars |-> <<>>, blob |-> [n |-> B64Len(b.n), bytes |-> b]]

\* zlib.decompress(base64.decodebytes(text)): the inverse on an encoded
\* zlib stream; explicit characters of the model are shorter than the 12
\* characters of the shortest stream, and raise binascii.Error or zlib.error
decompress_b64(text) ==
  IF text.chars = <<>> /\ text.blob.n > 0
    THEN Ok(text.blob.bytes.data)
    ELSE Raise("Error", <<>>)

\* ----------------------------------------------------------- symbol table
Literals == {table[i][1] : i \in 1..Len(table)}

\* table[x] for x in table
TableCode(x) == table[CHOOSE i \in 1..Len(table) : table[i][1] = x][2]

\* {v: k for k, v in table.items()}: a later item overwrites an earlier one
rev_table ==
  [c \in {table[i][2] : i \in 1..Len(table)} |->
     table[CHOOSE i \in 1..Len(table) :
             table[i][2] = c /\ \A j \in (i + 1)..Len(table) : table[j][2] # c][1]]

\* -------------------------------------------------------------- tokenizer
\* literal lit occurs in txt at 0-based position pos
MatchesAt(lit, txt, pos) ==
  /\ pos + Len(lit) <= Len(txt)
  /\ \A k \in 1..Len(lit) : txt[pos + k] = lit[k]

\* the longest alternative matching at pos (0 if none)
match_at_longest(txt, pos) ==
  LET M == {i \in 1..Len(table) : MatchesAt(table[i][1], txt, pos)}
  IN IF M = {} THEN 0
     ELSE CHOOSE i \in M : \A j \in M :
            \/ Len(table[j][1]) < Len(table[i][1])
            \/ (Len(table[j][1]) = Len(table[i][1]) /\ i <= j)

\* _kywds at pos: the first alternative, in table order, that matches
\* (0 if none)
match_at(txt, pos) ==
  LET M == {i \in 1..Len(table) : MatchesAt(table[i][1], txt, pos)}
  IN IF M = {} THEN 0 ELSE Min(M)

\* the leftmost position >= pos where _kywds matches (-1 if none)
RECURSIVE search(_, _)
search(txt, pos) ==
  IF pos >= Len(txt) THEN -1
  ELSE IF match_at(txt, pos) # 0 THEN pos
  ELSE search(txt, pos + 1)

\* re.split(_kywds, txt): the text before each match and the match (the
\* pattern is one capturing group), then the text after the last match
RECURSIVE split_loop(_, _, _)
split_loop(txt, pos, out) ==
  LET p == search(txt, pos)
  IN IF p = -1 THEN Append(out, Slice(txt, pos, Len(txt)))
     ELSE LET lit == table[match_at(txt, p)][1]
          IN split_loop(txt, p + Len(lit), out \o <<Slice(txt, pos, p), lit>>)

re_split(txt) == split_loop(txt, 0, <<>>)

\* ----------------------------------------------------------- ident framer
\* _form_ident with the length digit taken modulo the digit alphabet
RECURSIVE form_ident_wrap(_, _, _)
form_ident_wrap(x, s, segments) ==
  IF s >= Len(x) THEN Ok(segments)
  ELSE LET segment == Slice(x, s * ChunkStep, (s + 1) * ChunkStep)
           i == (Len(segment) - 1) % Len(base_62)
       IN form_ident_wrap(x, s + ChunkStep,
                          segments \o <<Marker, PyAt(base_62, i)>> \o segment)

\* the loop of _form_ident from range value s on; segments is the join of
\* the list built so far
RECURSIVE form_ident_loop(_, _, _)
form_ident_loop(x, s, segments) ==
  IF s >= Len(x) THEN Ok(segments)
  ELSE LET segment == Slice(x, s * ChunkStep, (s + 1) * ChunkStep)
           i == Len(segment) - 1
       IN IF ~InRange(base_62, i) THEN Raise("IndexError", <<>>)
          ELSE form_ident_loop(x, s + ChunkStep,
                               segments \o <<Marker, PyAt(base_62, i)>> \o segment)

form_ident(x) == form_ident_loop(x, 0, <<>>)

\* ------------------------------------------------------ payload assembler
\* the for loop of _encode over the pieces of re.split, from piece k on
RECURSIVE assemble(_, _, _)
assemble(pieces, k, payload) ==
  IF k > Len(pieces) THEN Ok(payload)
  ELSE LET x == pieces[k]
       IN IF x = <<>> THEN assemble(pieces, k + 1, payload)
          ELSE IF x \in Literals
            THEN assemble(pieces, k + 1, Append(payload, TableCode(x)))
          ELSE LET f == form_ident(x)
               IN IF f.status # "ok" THEN Raise(f.status, <<>>)
                  ELSE assemble(pieces, k + 1, payload \o f.val)

\* ------------------------------------------------------- compression gate
Flagged(flag, s) == [chars |-> <<flag>> \o s.chars, blob |-> s.blob]

\* the gate without the comparison of the two lengths
gate_keep_compressed(payload, threshold, zlen) ==
  IF Len(payload) > threshold
    THEN Flagged("1", encodebytes(zlib_compress(payload, zlen)))
    ELSE Flagged("0", Str(payload))

\* the gate opening at the threshold itself
gate_at_threshold(payload, threshold, zlen) ==
  IF Len(payload) >= threshold
    THEN LET encoded == Flagged("1", encodebytes(zlib_compress(payload, zlen)))
         IN IF StrLen(encoded) < Len(payload) + 1
              THEN encoded ELSE Flagged("0", Str(payload))
    ELSE Flagged("0", Str(payload))

\* the end of _encode; zlen is the length zlib.compress returns
gate(payload, threshold, zlen) ==
  IF Len(payload) > threshold
    THEN LET encoded == Flagged("1", encodebytes(zlib_compress(payload, zlen)))
         IN IF StrLen(encoded) < Len(payload) + 1
              THEN encoded ELSE Flagged("0", Str(payload))
    ELSE Flagged("0", Str(payload))

\* ---------------------------------------------------------------- decoder
\* the walk of _decode that skips a character it does not know
RECURSIVE decode_skip(_, _, _)
decode_skip(text, pointer, payload) ==
  IF ~(pointer < Len(text)) THEN Ok(payload)
  ELSE LET x == text[pointer + 1]
           p1 == pointer + 1
       IN IF x \in DOMAIN rev_table
            THEN decode_skip(text, p1, payload \o rev_table[x])
          ELSE IF x # Marker THEN decode_skip(text, p1, payload)
          ELSE IF ~InRange(text, p1) THEN Raise("IndexError", <<>>)
          ELSE IF text[p1 + 1] \notin Chars(base_62) THEN Raise("ValueError", <<>>)
          ELSE LET length == IndexOf(base_62, text[p1 + 1]) + 1
                   p2 == p1 + 1
               IN decode_skip(text, p2 + length,
                              payload \o Slice(text, p2, p2 + length))

\* the while loop of _decode from pointer on
RECURSIVE decode_loop(_, _, _)
decode_loop(text, pointer, payload) ==
  IF ~(pointer < Len(text)) THEN Ok(payload)
  ELSE LET x == text[pointer + 1]
           p1 == pointer + 1
       IN IF x \in DOMAIN rev_table
            THEN decode_loop(text, p1, payload \o rev_table[x])
          ELSE IF x # Marker THEN Raise("ValueError", <<>>)
          ELSE IF ~InRange(text, p1) THEN Raise("IndexError", <<>>)
          ELSE IF text[p1 + 1] \notin Chars(base_62) THEN Raise("ValueError", <<>>)
          ELSE LET length == IndexOf(base_62, text[p1 + 1]) + 1
                   p2 == p1 + 1
               IN decode_loop(text, p2 + length,
                              payload \o Slice(text, p2, p2 + length))

\* _decode; an artifact that carries a base64 text starts with explicit
\* characters, and a text walked by the loop is explicit
decode(artifact) ==
  IF StrLen(artifact) = 0 THEN Raise("IndexError", <<>>)
  ELSE LET compression == artifact.chars[1]
           text == [chars |-> Tail(artifact.chars), blob |-> artifact.blob]
       IN IF compression = "1"
            THEN LET d == decompress_b64(text)
                 IN IF d.status # "ok" THEN d ELSE decode_loop(d.val, 0, <<>>)
            ELSE decode_loop(text.chars, 0, <<>>)

\* ----------------------------------------------------------------- inputs
\* an unknown run of n characters; it holds the marker and a symbol code
RunChars == <<"x", "5", "K">>
Run(n) == [i \in 1..n |-> RunChars[((i - 1) % 3) + 1]]

\* text placed before and after the run
Frags ==
  { <<>>, <<"a", "s">>, <<"a", "s", "s", "e", "r", "t">>,
    <<"a", "s", "y", "n", "c">>, <<"y">> }

Codes == {f1 \o Run(n) \o f2 : f1 \in Frags, n \in 0..MaxRun, f2 \in Frags}

Thresholds == {MidThreshold, DefaultThreshold}

\* characters of the artifacts handed to _decode: the two flags, the
\* marker, a symbol code and a character outside every alphabet
ArtifactChars == {"0", "1", "5", "K", "-"}

RECURSIVE SeqsUpTo(_, _)
SeqsUpTo(S, n) ==
  IF n = 0 THEN {<<>>}
  ELSE LET R == SeqsUpTo(S, n - 1)
       IN R \cup {Append(r, c) : r \in {q \in R : Len(q) = n - 1}, c \in S}

Artifacts == {Str(cs) : cs \in SeqsUpTo(ArtifactChars, MaxArtifactLen)}

\* ------------------------------------------------------------------ state
VARIABLES
  pc,                \* which call is next, or how the last one ended
  txt,               \* argument of _encode
  threshold_length,  \* argument of _encode
  split,             \* _encode: the list returned by re.split
  payload_string,    \* _encode: the payload, or the exception of the loop
  encoded,           \* what _encode returned or raised
  text,              \* argument of _decode
  decoded            \* what _decode returned or raised

vars == <<pc, txt, threshold_length, split, payload_string, encoded, text, decoded>>

None == [status |-> "none", val |-> <<>>]
NoneStr == [status |-> "none", val |-> Str(<<>>)]

Init ==
  /\ split = <<>>
  /\ payload_string = None
  /\ encoded = NoneStr
  /\ decoded = None
  /\ \/ /\ pc = "call_encode"
        /\ txt \in Codes
        /\ threshold_length \in Thresholds
        /\ text = Str(<<>>)
     \/ /\ pc = "call_decode"
        /\ text \in Artifacts
        /\ txt = <<>>
        /\ threshold_length = DefaultThreshold

\* _encode(txt, threshold_length)
EncodeCall ==
  /\ pc = "call_encode"
  /\ \E pieces \in {re_split(txt)} : \E p \in {assemble(pieces, 1, <<>>)} :
        /\ split' = pieces
        /\ payload_string' = p
        /\ IF p.status = "ok"
             THEN /\ \E zlen \in ZlibLens(Len(p.val)) :
                       encoded' = Ok(gate(p.val, threshold_length, zlen))
                  /\ pc' = "encoded"
             ELSE /\ encoded' = Raise(p.status, Str(<<>>))
                  /\ pc' = "encode_raised"
  /\ UNCHANGED <<txt, threshold_length, text, decoded>>

\* _decode of the artifact _encode returned
DecodeEncoded ==
  /\ pc = "encoded"
  /\ text' = encoded.val
  /\ decoded' = decode(encoded.val)
  /\ pc' = "round_trip"
  /\ UNCHANGED <<txt, threshold_length, split, payload_string, encoded>>

\* _decode(text) of an artifact from anywhere
DecodeCall ==
  /\ pc = "call_decode"
  /\ decoded' = decode(text)
  /\ pc' = "decoded"
  /\ UNCHANGED <<txt, threshold_length, split, payload_string, encoded, text>>

Next == EncodeCall \/ DecodeEncoded \/ DecodeCall

Spec == Init /\ [][Next]_vars

\* ------------------------------------------------------ the wire grammar
\* How reading p from 0-based position pos as token* ends: "end" when p is
\* a sequence of whole tokens, "invalid_start" at a character that starts
\* no token, "bad_digit" at a marker followed by no length digit, "overrun"
\* at a marker that ends p or declares more characters than remain.
RECURSIVE WalkEnd(_, _)
WalkEnd(p, pos) ==
  IF pos >= Len(p) THEN "end"
  ELSE IF p[pos + 1] \in DOMAIN rev_table THEN WalkEnd(p, pos + 1)
  ELSE IF p[pos + 1] # Marker THEN "invalid_start"
  ELSE IF pos + 1 >= Len(p) THEN "overrun"
  ELSE IF p[pos + 2] \notin Chars(base_62) THEN "bad_digit"
  ELSE LET L == IndexOf(base_62, p[pos + 2]) + 1
       IN IF pos + 2 + L > Len(p) THEN "overrun" ELSE WalkEnd(p, pos + 2 + L)

\* the symbol codes standing at token starts of p from pos on
RECURSIVE SymTokens(_, _)
SymTokens(p, pos) ==
  IF pos >= Len(p) THEN {}
  ELSE IF p[pos + 1] \in DOMAIN rev_table
    THEN {p[pos + 1]} \cup SymTokens(p, pos + 1)
  ELSE IF p[pos + 1] = Marker /\ pos + 1 < Len(p) /\ p[pos + 2] \in Chars(base_62)
    THEN SymTokens(p, pos + 2 + IndexOf(base_62, p[pos + 2]) + 1)
  ELSE {}

\* frames of at most B = len(base_62) characters covering x in order
RECURSIVE ChunkFrames(_)
ChunkFrames(x) ==
  IF x = <<>> THEN <<>>
  ELSE LET L == MinOf(Len(x), Len(base_62))
       IN <<Marker, base_62[L]>> \o SubSeq(x, 1, L)
            \o ChunkFrames(SubSeq(x, L + 1, Len(x)))

RECURSIVE Flatten(_)
Flatten(ss) == IF ss = <<>> THEN <<>> ELSE Head(ss) \o Flatten(Tail(ss))

\* 0-based position in the text of piece i of a split
RECURSIVE PieceStart(_, _)
PieceStart(ss, i) == IF i = 1 THEN 0 ELSE PieceStart(ss, i - 1) + Len(ss[i - 1])

\* the pieces of split that _encode hands to _form_ident
UnknownPieces == {i \in 1..Len(split) : split[i] # <<>> /\ split[i] \notin Literals}

EncodeReturned == pc \in {"encoded", "round_trip"}
EncodeLeft == pc \in {"encoded", "encode_raised", "round_trip"}

Assert6 == <<"a", "s", "s", "e", "r", "t">>
Async5 == <<"a", "s", "y", "n", "c">>

\* ----------------------------------------------------------------- claims
\* C1: for every input text and threshold, _encode returns an artifact and
\* _decode of that artifact returns exactly the input.
C1_RoundTrip ==
  /\ pc # "encode_raised"
  /\ pc = "round_trip" => decoded = Ok(txt)

\* C2: every unknown run of n characters is framed by _form_ident as
\* ceil(n/62) frames marker + digit + span, each span of 1..62 characters
\* with digit base_62[L-1], the spans covering the run in order (62
\* characters: one frame; 63 characters: two frames).
C2_FramerChunking ==
  EncodeLeft =>
    \A i \in UnknownPieces : form_ident(split[i]) = Ok(ChunkFrames(split[i]))

\* C3: the artifact _encode returns is never longer than the payload plus
\* the flag, and it carries flag "1" only when the compressed form with
\* its flag is shorter than the raw payload with its flag.
C3_LengthBound ==
  EncodeReturned =>
    /\ StrLen(encoded.val) <= Len(payload_string.val) + 1
    /\ encoded.val.chars[1] = "1" =>
         /\ encoded.val.blob.n > 0
         /\ StrLen(encoded.val) < Len(payload_string.val) + 1

C3_Witness ==
  /\ pc = "encoded"
  /\ encoded.val.chars[1] = "1"
  /\ Len(payload_string.val) > threshold_length

\* C4: a raw payload whose walk meets a marker at its end, or a frame
\* declaring more characters than remain, makes _decode fail; no result
\* is returned.
C4_OverrunFails ==
  (/\ pc = "decoded"
   /\ StrLen(text) > 0
   /\ text.chars[1] = "0"
   /\ WalkEnd(Tail(text.chars), 0) = "overrun") => decoded.status # "ok"

\* C5: _decode fails on an empty artifact and on an artifact whose first
\* character is neither "0" nor "1".
C5_FlagValidated ==
  (/\ pc = "decoded"
   /\ (StrLen(text) = 0 \/ text.chars[1] \notin {"0", "1"})) => decoded.status # "ok"

\* C6: when the walk of a raw payload reaches a token start holding a
\* character that is neither a symbol code nor the marker, _decode raises
\* there and returns nothing, whatever was decoded before.
C6_InvalidStartFails ==
  (/\ pc = "decoded"
   /\ StrLen(text) > 0
   /\ text.chars[1] # "1"
   /\ WalkEnd(Tail(text.chars), 0) = "invalid_start")
    => decoded = Raise("ValueError", <<>>)

C6_Witness ==
  /\ pc = "decoded"
  /\ Len(text.chars) >= 3
  /\ text.chars[1] = "0"
  /\ text.chars[2] \in DOMAIN rev_table
  /\ WalkEnd(Tail(text.chars), 0) = "invalid_start"
  /\ decoded.status = "ValueError"

\* C7: a payload no longer than threshold_length is returned as "0"
\* followed by the payload unchanged; flag "1" appears only for a payload
\* longer than threshold_length.
C7_ThresholdGate ==
  EncodeReturned =>
    /\ Len(payload_string.val) <= threshold_length =>
         encoded.val = Flagged("0", Str(payload_string.val))
    /\ encoded.val.chars[1] = "1" => Len(payload_string.val) > threshold_length

C7_Witness ==
  /\ pc = "encoded"
  /\ Len(payload_string.val) = threshold_length
  /\ encoded.val.chars[1] = "0"

\* C8 as claimed: no symbol code is the marker and no symbol code is a
\* character of base_62.
C8_CodesDisjointFromDigits ==
  EncodeLeft =>
    \A c \in DOMAIN rev_table : c # Marker /\ c \notin Chars(base_62)

\* C8 amended: no symbol code is the marker; the symbol codes are exactly
\* the other 61 characters of base_62.
C8_CodesAvoidMarker ==
  EncodeLeft =>
    /\ \A c \in DOMAIN rev_table : c # Marker
    /\ DOMAIN rev_table = Chars(base_62) \ {Marker}
    /\ payload_string.status = "ok" => Marker \notin SymTokens(payload_string.val, 0)

C8_Witness ==
  /\ pc = "round_trip"
  /\ SymTokens(payload_string.val, 0) # {}
  /\ \E i \in UnknownPieces : Marker \in Chars(split[i])
  /\ decoded = Ok(txt)

\* C9: re.split cuts at the leftmost position where a literal matches and
\* takes there the literal declared first in table; the text between
\* matches forms the other pieces; "assert" and "async" are never matched
\* and their codes never stand as symbol tokens in a payload.
C9_MatchOrder ==
  pc \in {"encoded", "encode_raised"} =>
    /\ Len(split) % 2 = 1
    /\ Flatten(split) = txt
    /\ \A i \in 1..Len(split) :
         LET st == PieceStart(split, i)
         IN IF i % 2 = 1
              THEN \A k \in 0..(Len(split[i]) - 1) : \A j \in 1..Len(table) :
                     ~MatchesAt(table[j][1], txt, st + k)
              ELSE \E j \in 1..Len(table) :
                     /\ table[j][1] = split[i]
                     /\ \A h \in 1..(j - 1) : ~MatchesAt(table[h][1], txt, st)
    /\ \A i \in 1..Len(split) : split[i] \notin {Assert6, Async5}
    /\ payload_string.status = "ok" =>
         SymTokens(payload_string.val, 0) \cap {"m", "P"} = {}

C9_Witness ==
  /\ pc = "encoded"
  /\ Len(txt) >= 6
  /\ SubSeq(txt, 1, 6) = Assert6
  /\ Len(split) >= 3
  /\ split[2] = <<"a", "s">>
  /\ payload_string.val[1] = "K"

\* C10: an artifact that _encode returns decodes to exactly the input; an
\* input with an unknown run that no length digit can frame makes _encode
\* raise, and every frame of a returned payload is whole.
C10_NoSilentCorruption ==
  /\ pc = "round_trip" => decoded = Ok(txt)
  /\ EncodeReturned =>
       /\ payload_string.status = "ok"
       /\ WalkEnd(payload_string.val, 0) = "end"
       /\ \A i \in UnknownPieces : Len(split[i]) <= Len(base_62)
  /\ pc = "encode_raised" => \E i \in UnknownPieces : Len(split[i]) > Len(base_62)

C10_Witness ==
  /\ pc = "round_trip"
  /\ \E i \in UnknownPieces : Len(split[i]) = Len(base_62)
  /\ Len(split) >= 3
  /\ decoded = Ok(txt)

====
